---- MODULE Spec2Model ----
(***************************************************************************)
(* Model of the CLEPP orchestration code:                                  *)
(*   clep/embedding/kge.py          do_kge, _weighted_splitter,            *)
(*                                  run_optimization, run_pipeline         *)
(*   vp4p/classification/classify.py  do_classification, get_classifier    *)
(*                                                                         *)
(* Three specifications share the variables:                               *)
(*   SpecSplit  _weighted_splitter called directly (twice, reseeded)       *)
(*   SpecKge    do_kge, which calls _weighted_splitter                     *)
(*   SpecClf    do_classification, which calls get_classifier              *)
(***************************************************************************)
EXTENDS Integers, Sequences, FiniteSets, TLC

(* ------------------------------ bounds --------------------------------- *)
\* most distinct edges of relation 1 in a splitter input: with the default
\* fractions, with the other fractions
MaxDefaultEdges == 9
MaxEdges == 3
\* most distinct edges of relation 2 in a splitter input
MaxEdges2 == 2
\* the non-default fractions are the multiples of 1 / 2^FracBits
FracBits == 2
\* most rows of the labelled edgelist given to do_kge
MaxKgeRows == 2
\* most components of an embedding vector
MaxDim == 2
\* most samples given to do_classification beyond the ten folds
MaxExtraSamples == 2

VARIABLES
    \* ---- _weighted_splitter ----
    edgelist,          \* Seq of rows [source, relation, target]; index label = position
    train_size,        \* <<num, den>>
    validation_size,   \* <<num, den>>
    frac_sizes,        \* [train_size, validation_size / (1 - train_size), 1]
    unique_relations,  \* sorted sequence of relation types
    data,              \* index labels still unassigned
    round,             \* position in frac_sizes of the running round
    rel,               \* position in unique_relations of the next relation
    frames,            \* Seq of sampled index sets of the running round
    split,             \* Seq of finished rounds, each a set of index labels
    order,             \* Seq (per finished round) of the relations in the order consumed
    spc,               \* "idle" | "entry" | "loop" | "return" | "returned" | "raised"
    \* ---- random source used by DataFrame.sample, and float rounding ----
    draws,             \* outputs of the seeded generator revealed so far
    drawNo,            \* draws consumed since the generator was seeded
    run,               \* 1 or 2: which run from the same seed
    maxRuns,
    firstSplit,        \* splits returned by run 1
    tie_mode,          \* how an inexact product that is a tie in exact arithmetic rounds
    \* ---- do_kge ----
    kedgelist,         \* Seq of rows [source, relation, target, label]
    design,            \* Seq of FileName values
    return_patients,
    kpc,
    design_norm_df,
    unique_nodes,
    label_mapping,
    files,             \* paths that exist under the output folder
    train_file,        \* rows of train.edgelist as written
    entity_index,      \* embedding_index: trained entity names ordered by id
    embedding,         \* [index, columns, label]
    kresult,           \* <<>> until do_kge returns, then <<the returned table>>
    kerror,            \* the exception that ended do_kge, or "none"
    \* ---- do_classification ----
    model_name,
    nsamples,
    title,
    cpc,
    model,
    cv_results,        \* the cross-validation result: key -> per-fold scores
    plot_data,         \* the score lists read from cv_results so far
    figure_saved,
    cerror,
    cresult

svars == <<edgelist, train_size, validation_size, frac_sizes, unique_relations, data,
           round, rel, frames, split, order, spc>>
rvars == <<draws, drawNo, run, maxRuns, firstSplit, tie_mode>>
kvars == <<kedgelist, design, return_patients, kpc, design_norm_df, unique_nodes,
           label_mapping, files, train_file, entity_index, embedding, kresult, kerror>>
cvars == <<model_name, nsamples, title, cpc, model, cv_results, plot_data,
           figure_saved, cerror, cresult>>
vars == <<svars, rvars, kvars, cvars>>

(* ------------------------------ values --------------------------------- *)
\* A cell of a table: a string, an integer, or the missing value.
StrVal(n) == [t |-> "str", v |-> n]
IntVal(n) == [t |-> "int", v |-> n]
NaN == [t |-> "nan", v |-> 0]

\* str(x), as applied by astype(str) and by to_csv / the triples reader
Str(x) == [t |-> "str", v |-> x.v]

Range(s) == {s[i] : i \in 1..Len(s)}

Min(S) == CHOOSE x \in S : \A y \in S : x <= y

RECURSIVE Sorted(_)
Sorted(S) == IF S = {} THEN <<>> ELSE <<Min(S)>> \o Sorted(S \ {Min(S)})

RECURSIVE GCD(_, _)
GCD(a, b) == IF b = 0 THEN a ELSE GCD(b, a % b)

RECURSIVE Pow2(_)
Pow2(n) == IF n = 0 THEN 1 ELSE 2 * Pow2(n - 1)

RECURSIVE IsPow2(_)
IsPow2(n) == IF n = 1 THEN TRUE ELSE IF n % 2 = 1 THEN FALSE ELSE IsPow2(n \div 2)

(* ----------------------------- fractions ------------------------------- *)
\* A float is modelled by the rational <<num, den>> it was written as.
\* It is exactly representable iff its reduced denominator is a power of two.
Abs(n) == IF n < 0 THEN -n ELSE n

Dyadic(f) == f[1] = 0 \/ IsPow2(f[2] \div GCD(Abs(f[1]), f[2]))

\* variant: the validation fraction is used as given, not renormalized
RenormalizedNot(t, v) == v

\* validation_size / (1 - train_size), for train_size < 1
Renormalized(t, v) == <<v[1] * t[2], v[2] * (t[2] - t[1])>>

\* the quotient is exact iff both operands and the quotient are representable
RenormalizedExact(t, v) == Dyadic(t) /\ Dyadic(v) /\ Dyadic(Renormalized(t, v))

FracNegative(f) == f[1] < 0
FracAboveOne(f) == f[1] > f[2]

\* variant: the sample size is rounded up
PyRoundCeil(f, exact, n, mode) ==
    IF (f[1] * n) % f[2] = 0 THEN (f[1] * n) \div f[2] ELSE ((f[1] * n) \div f[2]) + 1

\* Python round(f * n): round half to even.  When the float product is not
\* exact, a product that is a tie in exact arithmetic falls where the float
\* error puts it (mode).
PyRound(f, exact, n, mode) ==
    LET num == f[1] * n
        den == f[2]
        q == num \div den
        r == num % den
    IN  IF 2 * r < den THEN q
        ELSE IF 2 * r > den THEN q + 1
        ELSE IF exact \/ mode = "even" THEN (IF q % 2 = 0 THEN q ELSE q + 1)
        ELSE IF mode = "up" THEN q + 1
        ELSE q

(* --------------------------- _weighted_splitter ------------------------ *)
\* edgelist['relation'].unique(), sorted
SortedUniqueRelations(el) == Sorted({el[i].relation : i \in 1..Len(el)})

\* variant: duplicates are kept
DropDuplicatesNot(el) == 1..Len(el)

\* edgelist.drop_duplicates(): the index labels of the first occurrences
DropDuplicates(el) == {i \in 1..Len(el) : \A j \in 1..(i - 1) : el[j] # el[i]}

\* data[data['relation'] == relation], in index order
Pool(el, d, relation) == Sorted({i \in d : el[i].relation = relation})

\* the rows of a set of index labels
Rows(el, S) == {el[i] : i \in S}

UnionSeq(fs) == UNION Range(fs)

\* variant: sampling does not use the seeded generator
SampleChoicesUnseeded(log, i, n, k) == {P \in SUBSET (1..n) : Cardinality(P) = k}

\* line 122: sample() draws k of the n positions of the pool without
\* replacement from the generator: draw number i after seeding is a fixed
\* output of the seed, unknown until it is first revealed.
SampleChoices(log, i, n, k) ==
    IF i <= Len(log) /\ log[i].n = n /\ log[i].k = k
    THEN {log[i].pos}
    ELSE {P \in SUBSET (1..n) : Cardinality(P) = k}

\* lines 108-116
Renormalize ==
    /\ spc = "entry"
    /\ train_size[1] # train_size[2]
    /\ frac_sizes' = <<[f |-> train_size, exact |-> Dyadic(train_size)],
                       [f |-> Renormalized(train_size, validation_size),
                        exact |-> RenormalizedExact(train_size, validation_size)],
                       [f |-> <<1, 1>>, exact |-> TRUE]>>
    /\ unique_relations' = SortedUniqueRelations(edgelist)
    /\ data' = DropDuplicates(edgelist)
    /\ split' = <<>>
    /\ order' = <<>>
    /\ round' = 1
    /\ rel' = 1
    /\ frames' = <<>>
    /\ spc' = "loop"
    /\ UNCHANGED <<edgelist, train_size, validation_size, rvars, kvars, cvars>>

\* lines 121-126: one relation of one round
SampleRelation ==
    /\ spc = "loop"
    /\ rel <= Len(unique_relations)
    /\ ~FracNegative(frac_sizes[round].f)
    /\ ~FracAboveOne(frac_sizes[round].f)
    /\ LET pool == Pool(edgelist, data, unique_relations[rel])
           n == Len(pool)
           k == PyRound(frac_sizes[round].f, frac_sizes[round].exact, n, tie_mode)
           i == drawNo + 1
       IN  \E pos \in SampleChoices(draws, i, n, k) :
             /\ LET temp == {pool[p] : p \in pos}
                IN  /\ data' = data \ temp
                    /\ frames' = Append(frames, temp)
             /\ draws' = IF i <= Len(draws)
                         THEN [draws EXCEPT ![i] = [n |-> n, k |-> k, pos |-> pos]]
                         ELSE Append(draws, [n |-> n, k |-> k, pos |-> pos])
             /\ drawNo' = i
    /\ rel' = rel + 1
    /\ UNCHANGED <<edgelist, train_size, validation_size, frac_sizes, unique_relations,
                   round, split, order, spc, run, maxRuns, firstSplit, tie_mode,
                   kvars, cvars>>

\* line 122: sample(frac=...) rejects a negative fraction and, without
\* replacement, a fraction above one
SampleRaises ==
    /\ spc = "loop"
    /\ rel <= Len(unique_relations)
    /\ FracNegative(frac_sizes[round].f) \/ FracAboveOne(frac_sizes[round].f)
    /\ spc' = "raised"
    /\ UNCHANGED <<edgelist, train_size, validation_size, frac_sizes, unique_relations,
                   data, round, rel, frames, split, order, rvars, kvars, cvars>>

\* line 128: pd.concat(frames) and split.append
EndRound ==
    /\ spc = "loop"
    /\ rel > Len(unique_relations)
    /\ frames # <<>>
    /\ split' = Append(split, UnionSeq(frames))
    /\ order' = Append(order, unique_relations)
    /\ frames' = <<>>
    /\ rel' = 1
    /\ IF round < 3
       THEN round' = round + 1 /\ spc' = "loop"
       ELSE round' = round /\ spc' = "return"
    /\ UNCHANGED <<edgelist, train_size, validation_size, frac_sizes, unique_relations,
                   data, rvars, kvars, cvars>>

\* line 128: pd.concat of an empty list of frames raises
ConcatRaises ==
    /\ spc = "loop"
    /\ rel > Len(unique_relations)
    /\ frames = <<>>
    /\ spc' = "raised"
    /\ UNCHANGED <<edgelist, train_size, validation_size, frac_sizes, unique_relations,
                   data, round, rel, frames, split, order, rvars, kvars, cvars>>

\* line 130
Return ==
    /\ spc = "return"
    /\ spc' = "returned"
    /\ UNCHANGED <<edgelist, train_size, validation_size, frac_sizes, unique_relations,
                   data, round, rel, frames, split, order, rvars, kvars, cvars>>

\* The generator is seeded again with the same seed and the splitter is
\* called again on the same input: the generator repeats its outputs.
Reseed ==
    /\ spc = "returned"
    /\ kpc = "idle"
    /\ run < maxRuns
    /\ run' = run + 1
    /\ firstSplit' = split
    /\ drawNo' = 0
    /\ spc' = "entry"
    /\ UNCHANGED <<edgelist, train_size, validation_size, frac_sizes, unique_relations,
                   data, round, rel, frames, split, order, draws, maxRuns, tie_mode,
                   kvars, cvars>>

SplitterNext ==
    \/ Renormalize
    \/ SampleRelation
    \/ SampleRaises
    \/ EndRound
    \/ ConcatRaises
    \/ Return

(* ------------------------------ inputs --------------------------------- *)
DefaultTrainSize == <<4, 5>>
DefaultValidationSize == <<1, 10>>

FracDen == Pow2(FracBits)

\* 0 < train_size < 1 and 0 < validation_size <= 1, not otherwise validated
FractionPairs ==
    {<<DefaultTrainSize, DefaultValidationSize>>}
      \cup {<<(<<a, FracDen>>), (<<b, FracDen>>)>> : a \in 1..(FracDen - 1), b \in 1..FracDen}

Gene == StrVal(0)

Edge(i, r) == [source |-> StrVal(i), relation |-> r, target |-> Gene]

\* n2 edges of relation 2, then n1 edges of relation 1, then the first d rows again
MkEdgelist(n1, n2, d) ==
    LET body == [i \in 1..(n2 + n1) |-> IF i <= n2 THEN Edge(i, 2) ELSE Edge(i - n2, 1)]
    IN  IF d = 0 \/ n1 + n2 = 0 THEN body ELSE body \o SubSeq(body, 1, d)

SplitterInputs(p) ==
    LET most == IF p = <<DefaultTrainSize, DefaultValidationSize>>
                THEN MaxDefaultEdges ELSE MaxEdges
    IN  {MkEdgelist(n1, n2, d) : n1 \in 0..most, n2 \in 0..MaxEdges2, d \in 0..1}

TieModes(t, v) ==
    IF RenormalizedExact(t, v) THEN {"even"} ELSE {"down", "even", "up"}

SplitterIdle ==
    /\ edgelist = <<>>
    /\ train_size = DefaultTrainSize
    /\ validation_size = DefaultValidationSize
    /\ spc = "idle"
    /\ tie_mode = "even"
    /\ maxRuns = 1

SplitterFresh ==
    /\ frac_sizes = <<>>
    /\ unique_relations = <<>>
    /\ data = {}
    /\ round = 1
    /\ rel = 1
    /\ frames = <<>>
    /\ split = <<>>
    /\ order = <<>>
    /\ draws = <<>>
    /\ drawNo = 0
    /\ run = 1
    /\ firstSplit = <<>>

KgeIdle ==
    /\ kedgelist = <<>>
    /\ design = <<>>
    /\ return_patients = TRUE
    /\ kpc = "idle"
    /\ design_norm_df = <<>>
    /\ unique_nodes = <<>>
    /\ label_mapping = <<>>
    /\ files = {}
    /\ train_file = {}
    /\ entity_index = <<>>
    /\ embedding = <<>>
    /\ kresult = <<>>
    /\ kerror = "none"

NoError == [type |-> "none", text |-> "", args |-> <<>>]

ClfFresh ==
    /\ model = "none"
    /\ cv_results = <<>>
    /\ plot_data = <<>>
    /\ figure_saved = FALSE
    /\ cerror = NoError
    /\ cresult = <<>>

ClfIdle ==
    /\ model_name = "svm"
    /\ nsamples = 10
    /\ title = "none"
    /\ cpc = "idle"
    /\ ClfFresh

InitSplit ==
    /\ \E p \in FractionPairs :
          /\ edgelist \in SplitterInputs(p)
          /\ train_size = p[1]
          /\ validation_size = p[2]
          /\ tie_mode \in TieModes(p[1], p[2])
    /\ spc = "entry"
    /\ maxRuns = 2
    /\ SplitterFresh
    /\ KgeIdle
    /\ ClfIdle

NextSplit == SplitterNext \/ Reseed

SpecSplit == InitSplit /\ [][NextSplit]_vars

(* -------------------------------- do_kge ------------------------------- *)
TrainPath == "train.edgelist"
ValidationPath == "validation.edgelist"
TestPath == "test.edgelist"
OptimizationDir == "pykeen_results_optim"
ConfigPath == "pykeen_results_optim/best_pipeline/pipeline_config.json"
BestPipelineDir == "pykeen_results_final"

\* the statements of do_kge, in program order
KgeOrder ==
    <<"entry", "split", "write_train", "write_validation", "write_test", "hpo",
      "optim_mkdir", "optim_save", "pipeline", "final_mkdir", "final_save",
      "embedding", "patients", "return", "returned">>

Rank(pc) == IF pc = "idle" THEN 0 ELSE CHOOSE i \in 1..Len(KgeOrder) : KgeOrder[i] = pc

After(pc) == KgeOrder[Rank(pc) + 1]

\* design.astype(str)['FileName']
AsTypeStr(col) == [i \in 1..Len(col) |-> Str(col[i])]

\* the rows of a sequence at a set of positions, in order
SelectAt(s, I) == LET idx == Sorted(I) IN [k \in 1..Len(idx) |-> s[idx[k]]]

\* edgelist[~edgelist['label'].isna()]
Labelled(el) == SelectAt(el, {i \in 1..Len(el) : el[i].label # NaN})

\* variant: rows with the same source are all kept
DropDuplicatesSourceNot(rows) == rows

\* rows.drop_duplicates('source'): the first row of every source
DropDuplicatesSource(rows) ==
    SelectAt(rows, {i \in 1..Len(rows) :
                        \A j \in 1..(i - 1) : rows[j].source # rows[i].source})

Max(S) == CHOOSE x \in S : \A y \in S : y <= x

\* {patient: label for patient, label in zip(source, label)}: a later pair
\* with the same key replaces an earlier one
DictFromZip(rows) ==
    [s \in {rows[i].source : i \in 1..Len(rows)} |->
        rows[Max({i \in 1..Len(rows) : rows[i].source = s})].label]

\* edgelist.drop(columns='label')
DropLabel(el) ==
    [i \in 1..Len(el) |->
        [source |-> el[i].source, relation |-> el[i].relation, target |-> el[i].target]]

\* to_csv(..., index=False, header=False): the cells as text
ToCsv(el, S) ==
    {[source |-> Str(el[i].source), relation |-> el[i].relation, target |-> Str(el[i].target)]
        : i \in S}

\* entity_to_id of the training triples: the entity names in sorted order
EntityIndex(rows) ==
    LET names == {r.source.v : r \in rows} \cup {r.target.v : r \in rows}
        ids == Sorted(names)
    IN  [i \in 1..Len(ids) |-> StrVal(ids[i])]

\* variant: the design table is used without astype(str)
IsInDesignRaw(index, norm, raw) ==
    SelectAt(index, {i \in 1..Len(index) : index[i] \in Range(raw)})

\* embedding[embedding.index.isin(design_norm_df['FileName'])]
IsInDesign(index, norm, raw) ==
    SelectAt(index, {i \in 1..Len(index) : index[i] \in Range(norm)})

KeyError == [t |-> "KeyError", v |-> 0]

\* variant: a missing key yields the missing value
LookupOrMissing(mapping, key) == IF key \in DOMAIN mapping THEN mapping[key] ELSE NaN

\* label_mapping[index]
Lookup(mapping, key) == IF key \in DOMAIN mapping THEN mapping[key] ELSE KeyError

\* lines 37-50, up to the call of _weighted_splitter
KgeStart ==
    /\ kpc = "entry"
    /\ kerror = "none"
    /\ design_norm_df' = AsTypeStr(design)
    /\ unique_nodes' = DropDuplicatesSource(Labelled(kedgelist))
    /\ label_mapping' = DictFromZip(unique_nodes')
    /\ edgelist' = DropLabel(kedgelist)
    /\ spc' = "entry"
    /\ kpc' = After(kpc)
    /\ UNCHANGED <<train_size, validation_size, frac_sizes, unique_relations, data, round,
                   rel, frames, split, order, rvars, kedgelist, design, return_patients,
                   files, train_file, entity_index, embedding, kresult, kerror, cvars>>

\* line 46: an exception of _weighted_splitter ends do_kge
KgeSplitRaised ==
    /\ kpc = "split"
    /\ kerror = "none"
    /\ spc = "raised"
    /\ kerror' = "ValueError"
    /\ UNCHANGED <<svars, rvars, kedgelist, design, return_patients, kpc, design_norm_df,
                   unique_nodes, label_mapping, files, train_file, entity_index, embedding,
                   kresult, cvars>>

\* lines 46-54: the three splits are bound and the paths are built
SplitReturned ==
    /\ kpc = "split"
    /\ kerror = "none"
    /\ spc = "returned"
    /\ kpc' = After(kpc)
    /\ UNCHANGED <<svars, rvars, kedgelist, design, return_patients, design_norm_df,
                   unique_nodes, label_mapping, files, train_file, entity_index, embedding,
                   kresult, kerror, cvars>>

\* line 56
WriteTrain ==
    /\ kpc = "write_train"
    /\ kerror = "none"
    /\ files' = files \cup {TrainPath}
    /\ train_file' = ToCsv(edgelist, split[1])
    /\ kpc' = After(kpc)
    /\ UNCHANGED <<svars, rvars, kedgelist, design, return_patients, design_norm_df,
                   unique_nodes, label_mapping, entity_index, embedding, kresult, kerror,
                   cvars>>

\* line 57
WriteValidation ==
    /\ kpc = "write_validation"
    /\ kerror = "none"
    /\ files' = files \cup {ValidationPath}
    /\ kpc' = After(kpc)
    /\ UNCHANGED <<svars, rvars, kedgelist, design, return_patients, design_norm_df,
                   unique_nodes, label_mapping, train_file, entity_index, embedding,
                   kresult, kerror, cvars>>

\* line 58
WriteTest ==
    /\ kpc = "write_test"
    /\ kerror = "none"
    /\ files' = files \cup {TestPath}
    /\ kpc' = After(kpc)
    /\ UNCHANGED <<svars, rvars, kedgelist, design, return_patients, design_norm_df,
                   unique_nodes, label_mapping, train_file, entity_index, embedding,
                   kresult, kerror, cvars>>

\* lines 143-179: hpo_pipeline reads the three files
Hpo ==
    /\ kpc = "hpo"
    /\ kerror = "none"
    /\ {TrainPath, ValidationPath, TestPath} \subseteq files
    /\ kpc' = After(kpc)
    /\ UNCHANGED <<svars, rvars, kedgelist, design, return_patients, design_norm_df,
                   unique_nodes, label_mapping, files, train_file, entity_index, embedding,
                   kresult, kerror, cvars>>

\* lines 181-183
OptimMkdir ==
    /\ kpc = "optim_mkdir"
    /\ kerror = "none"
    /\ files' = IF OptimizationDir \in files THEN files ELSE files \cup {OptimizationDir}
    /\ kpc' = After(kpc)
    /\ UNCHANGED <<svars, rvars, kedgelist, design, return_patients, design_norm_df,
                   unique_nodes, label_mapping, train_file, entity_index, embedding,
                   kresult, kerror, cvars>>

\* line 185: what save_to_directory puts in the directory is the library's
\* business; the best pipeline's configuration may or may not be among it
OptimSave ==
    /\ kpc = "optim_save"
    /\ kerror = "none"
    /\ OptimizationDir \in files
    /\ \E config \in SUBSET {ConfigPath} : files' = files \cup config
    /\ kpc' = After(kpc)
    /\ UNCHANGED <<svars, rvars, kedgelist, design, return_patients, design_norm_df,
                   unique_nodes, label_mapping, train_file, entity_index, embedding,
                   kresult, kerror, cvars>>

\* lines 193-201: pipeline_from_path reads the configuration and trains
PipelineFromPath ==
    /\ kpc = "pipeline"
    /\ kerror = "none"
    /\ ConfigPath \in files
    /\ kpc' = After(kpc)
    /\ UNCHANGED <<svars, rvars, kedgelist, design, return_patients, design_norm_df,
                   unique_nodes, label_mapping, files, train_file, entity_index, embedding,
                   kresult, kerror, cvars>>

\* lines 195-196: the configuration file is absent
ConfigMissing ==
    /\ kpc = "pipeline"
    /\ kerror = "none"
    /\ ConfigPath \notin files
    /\ kerror' = "FileNotFoundError"
    /\ UNCHANGED <<svars, rvars, kedgelist, design, return_patients, kpc, design_norm_df,
                   unique_nodes, label_mapping, files, train_file, entity_index, embedding,
                   kresult, cvars>>

\* lines 203-205
FinalMkdir ==
    /\ kpc = "final_mkdir"
    /\ kerror = "none"
    /\ files' = IF BestPipelineDir \in files THEN files ELSE files \cup {BestPipelineDir}
    /\ kpc' = After(kpc)
    /\ UNCHANGED <<svars, rvars, kedgelist, design, return_patients, design_norm_df,
                   unique_nodes, label_mapping, train_file, entity_index, embedding,
                   kresult, kerror, cvars>>

\* lines 207-209
FinalSave ==
    /\ kpc = "final_save"
    /\ kerror = "none"
    /\ BestPipelineDir \in files
    /\ kpc' = After(kpc)
    /\ UNCHANGED <<svars, rvars, kedgelist, design, return_patients, design_norm_df,
                   unique_nodes, label_mapping, files, train_file, entity_index, embedding,
                   kresult, kerror, cvars>>

\* lines 72-81
BuildEmbedding ==
    /\ kpc = "embedding"
    /\ kerror = "none"
    /\ entity_index' = EntityIndex(train_file)
    /\ \E dim \in 1..MaxDim :
          embedding' = [index |-> entity_index',
                        columns |-> [i \in 1..dim |-> <<"Component", i>>],
                        label |-> <<>>]
    /\ kpc' = After(kpc)
    /\ UNCHANGED <<svars, rvars, kedgelist, design, return_patients, design_norm_df,
                   unique_nodes, label_mapping, files, train_file, kresult, kerror, cvars>>

\* lines 83-88 with return_patients set and every lookup succeeding
LabelPatients ==
    /\ kpc = "patients"
    /\ kerror = "none"
    /\ return_patients
    /\ LET kept == IsInDesign(embedding.index, design_norm_df, design)
       IN  /\ \A i \in 1..Len(kept) : Lookup(label_mapping, kept[i]) # KeyError
           /\ embedding' =
                [index |-> kept,
                 columns |-> IF kept = <<>> THEN embedding.columns
                             ELSE Append(embedding.columns, <<"label", 0>>),
                 label |-> [e \in Range(kept) |-> Lookup(label_mapping, e)]]
    /\ kpc' = After(kpc)
    /\ UNCHANGED <<svars, rvars, kedgelist, design, return_patients, design_norm_df,
                   unique_nodes, label_mapping, files, train_file, entity_index, kresult,
                   kerror, cvars>>

\* line 88: a retained index is not a key of label_mapping
LabelRaises ==
    /\ kpc = "patients"
    /\ kerror = "none"
    /\ return_patients
    /\ LET kept == IsInDesign(embedding.index, design_norm_df, design)
       IN  \E i \in 1..Len(kept) : Lookup(label_mapping, kept[i]) = KeyError
    /\ kerror' = "KeyError"
    /\ UNCHANGED <<svars, rvars, kedgelist, design, return_patients, kpc, design_norm_df,
                   unique_nodes, label_mapping, files, train_file, entity_index, embedding,
                   kresult, cvars>>

\* line 83 with return_patients unset
AllEntities ==
    /\ kpc = "patients"
    /\ kerror = "none"
    /\ ~return_patients
    /\ kpc' = After(kpc)
    /\ UNCHANGED <<svars, rvars, kedgelist, design, return_patients, design_norm_df,
                   unique_nodes, label_mapping, files, train_file, entity_index, embedding,
                   kresult, kerror, cvars>>

\* line 90
KgeReturn ==
    /\ kpc = "return"
    /\ kerror = "none"
    /\ kresult' = <<embedding>>
    /\ kpc' = After(kpc)
    /\ UNCHANGED <<svars, rvars, kedgelist, design, return_patients, design_norm_df,
                   unique_nodes, label_mapping, files, train_file, entity_index, embedding,
                   kerror, cvars>>

\* the statements that write files or call the library
ExternalSteps ==
    {"write_train", "write_validation", "write_test", "hpo", "optim_mkdir", "optim_save",
     "pipeline", "final_mkdir", "final_save"}

\* variant: the exception is swallowed and the next statement runs
StepFailsSwallowed ==
    /\ kpc \in ExternalSteps
    /\ kerror = "none"
    /\ kpc' = After(kpc)
    /\ UNCHANGED <<svars, rvars, kedgelist, design, return_patients, design_norm_df,
                   unique_nodes, label_mapping, files, train_file, entity_index, embedding,
                   kresult, kerror, cvars>>

\* lines 56-69: a write or a library call raises; the exception leaves do_kge
StepFails ==
    /\ kpc \in ExternalSteps
    /\ kerror = "none"
    /\ kpc = "optim_mkdir" => OptimizationDir \notin files
    /\ kpc = "final_mkdir" => BestPipelineDir \notin files
    /\ kerror' = "Exception"
    /\ UNCHANGED <<svars, rvars, kedgelist, design, return_patients, kpc, design_norm_df,
                   unique_nodes, label_mapping, files, train_file, entity_index, embedding,
                   kresult, cvars>>

NextKge ==
    \/ KgeStart
    \/ Renormalize
    \/ SampleRelation
    \/ SampleRaises
    \/ EndRound
    \/ ConcatRaises
    \/ Return
    \/ KgeSplitRaised
    \/ SplitReturned
    \/ WriteTrain
    \/ WriteValidation
    \/ WriteTest
    \/ Hpo
    \/ OptimMkdir
    \/ OptimSave
    \/ PipelineFromPath
    \/ ConfigMissing
    \/ FinalMkdir
    \/ FinalSave
    \/ BuildEmbedding
    \/ LabelPatients
    \/ LabelRaises
    \/ AllEntities
    \/ KgeReturn
    \/ StepFails

KgeSources == {StrVal(1), IntVal(1), StrVal(2)}
KgeLabels == {NaN, IntVal(0), IntVal(1)}

KgeRow ==
    {[source |-> s, relation |-> s.v, target |-> Gene, label |-> l] :
        s \in KgeSources, l \in KgeLabels}

KgeInputs == UNION {[1..n -> KgeRow] : n \in 0..MaxKgeRows}

KgeDesigns == {<<IntVal(1)>>, <<StrVal(1), StrVal(2)>>}

KgeFractionPairs ==
    {<<DefaultTrainSize, DefaultValidationSize>>, <<(<<1, 2>>), (<<1, 1>>)>>}

InitKge ==
    /\ kedgelist \in KgeInputs
    /\ design \in KgeDesigns
    /\ return_patients \in BOOLEAN
    /\ files \in {{}, {OptimizationDir, BestPipelineDir}}
    /\ kpc = "entry"
    /\ design_norm_df = <<>>
    /\ unique_nodes = <<>>
    /\ label_mapping = <<>>
    /\ train_file = {}
    /\ entity_index = <<>>
    /\ embedding = <<>>
    /\ kresult = <<>>
    /\ kerror = "none"
    /\ \E p \in KgeFractionPairs :
          /\ train_size = p[1]
          /\ validation_size = p[2]
          /\ tie_mode \in TieModes(p[1], p[2])
    /\ edgelist = <<>>
    /\ spc = "idle"
    /\ maxRuns = 1
    /\ SplitterFresh
    /\ ClfIdle

SpecKge == InitKge /\ [][NextKge]_vars

(* --------------------------- do_classification ------------------------- *)
\* cv=10 at line 13
Folds == 10

\* the names get_classifier knows, with the estimator each builds
Classifiers ==
    [logistic_regression |-> "LogisticRegression(solver=lbfgs)",
     elastic_net |-> "LogisticRegression(penalty=elasticnet, l1_ratio=0.5, solver=saga)",
     svm |-> "SVC(gamma=scale)",
     random_forrest |-> "RandomForestClassifier()"]

\* scoring=[...] at line 13
Scoring == <<"roc_auc", "accuracy", "f1">>

\* cross_validate names the scores of scorer s 'test_' + s
TestKey == [roc_auc |-> "test_roc_auc", accuracy |-> "test_accuracy", f1 |-> "test_f1"]

\* the keys of the dictionary cross_validate returns
CvKeys == {"fit_time", "score_time"} \cup {TestKey[Scoring[i]] : i \in 1..Len(Scoring)}

\* line 15
scoring_metrics == <<"test_accuracy", "test_f1_micro", "test_roc_auc">>

\* line 52: the message is a constant; nothing is interpolated into it
ModelNotFound ==
    [type |-> "ModuleNotFoundError",
     text |-> "The entered model was not found. Please check the model that was inputted",
     args |-> <<>>]

\* lines 11, 39-49, 54
GetClassifier ==
    /\ cpc = "entry"
    /\ model_name \in DOMAIN Classifiers
    /\ model' = Classifiers[model_name]
    /\ cpc' = "cross_validate"
    /\ UNCHANGED <<svars, rvars, kvars, model_name, nsamples, title, cv_results, plot_data,
                   figure_saved, cerror, cresult>>

\* lines 11, 51-52
GetClassifierRaises ==
    /\ cpc = "entry"
    /\ model_name \notin DOMAIN Classifiers
    /\ cerror' = ModelNotFound
    /\ cpc' = "raised"
    /\ UNCHANGED <<svars, rvars, kvars, model_name, nsamples, title, model, cv_results,
                   plot_data, figure_saved, cresult>>

\* line 13 with enough samples for the folds
CrossValidate ==
    /\ cpc = "cross_validate"
    /\ nsamples >= Folds
    /\ cv_results' = [k \in CvKeys |-> [i \in 1..Folds |-> "score"]]
    /\ cpc' = "metrics"
    /\ UNCHANGED <<svars, rvars, kvars, model_name, nsamples, title, model, plot_data,
                   figure_saved, cerror, cresult>>

\* line 13 with fewer samples than folds
CrossValidateRaises ==
    /\ cpc = "cross_validate"
    /\ nsamples < Folds
    /\ cerror' = [type |-> "ValueError", text |-> "n_splits greater than samples",
                  args |-> <<nsamples>>]
    /\ cpc' = "raised"
    /\ UNCHANGED <<svars, rvars, kvars, model_name, nsamples, title, model, cv_results,
                   plot_data, figure_saved, cresult>>

\* the metrics of scoring_metrics before the first that is no key of the result
RECURSIVE ReadUntilMissing(_, _)
ReadUntilMissing(res, i) ==
    IF i > Len(scoring_metrics) \/ scoring_metrics[i] \notin DOMAIN res THEN <<>>
    ELSE <<res[scoring_metrics[i]]>> \o ReadUntilMissing(res, i + 1)

\* lines 15-34: the metrics are read, the box plot is drawn and saved, the
\* result is returned; a metric that is no key of the result ends the call
PlotAndReturn ==
    /\ cpc = "metrics"
    /\ plot_data' = ReadUntilMissing(cv_results, 1)
    /\ IF Len(plot_data') = Len(scoring_metrics)
       THEN /\ title' = IF title = "none" THEN "Box Plot of Scoring Metrics" ELSE title
            /\ figure_saved' = TRUE
            /\ cresult' = <<cv_results>>
            /\ cerror' = cerror
            /\ cpc' = "returned"
       ELSE /\ cerror' = [type |-> "KeyError", text |-> "",
                          args |-> <<scoring_metrics[Len(plot_data') + 1]>>]
            /\ cpc' = "raised"
            /\ UNCHANGED <<title, figure_saved, cresult>>
    /\ UNCHANGED <<svars, rvars, kvars, model_name, nsamples, model, cv_results>>

NextClf ==
    \/ GetClassifier
    \/ GetClassifierRaises
    \/ CrossValidate
    \/ CrossValidateRaises
    \/ PlotAndReturn

ModelNames ==
    {"logistic_regression", "elastic_net", "svm", "random_forrest", "random_forest",
     "not_a_model", "SVM"}

InitClf ==
    /\ model_name \in ModelNames
    /\ nsamples \in (Folds - 2)..(Folds + MaxExtraSamples)
    /\ title \in {"none", "given"}
    /\ cpc = "entry"
    /\ ClfFresh
    /\ SplitterIdle
    /\ SplitterFresh
    /\ KgeIdle

SpecClf == InitClf /\ [][NextClf]_vars

(* --------------------- properties: do_classification ------------------- *)
\* C7: get_classifier returns a classifier for each of the four names; for
\* any other name it fails with a model-not-found error that names the
\* offending value, before any cross-validation or figure, and no
\* classifier is chosen.
C7_UnknownModelNamed ==
    (cpc # "entry") =>
        /\ model_name \in {"logistic_regression", "elastic_net", "svm", "random_forrest"}
              => model # "none"
        /\ model_name \notin {"logistic_regression", "elastic_net", "svm", "random_forrest"}
              => /\ cpc = "raised"
                 /\ cerror.type = "ModuleNotFoundError"
                 /\ \E i \in 1..Len(cerror.args) : cerror.args[i] = model_name
                 /\ model = "none"
                 /\ cv_results = <<>>
                 /\ ~figure_saved
                 /\ cresult = <<>>

\* C8: with a recognized model_name and at least 10 samples the call
\* returns the cross-validation result, which holds 10 scores under
\* test_accuracy, an F1 key and test_roc_auc, after all three metrics were
\* read and the figure was written.
C8_RecognizedModelReturns ==
    (cpc \in {"raised", "returned"}
        /\ model_name \in {"logistic_regression", "elastic_net", "svm", "random_forrest"}
        /\ nsamples >= 10) =>
            /\ cpc = "returned"
            /\ cerror = NoError
            /\ Len(plot_data) = 3
            /\ figure_saved
            /\ \A k \in {"test_accuracy", "test_roc_auc"} :
                  k \in DOMAIN cresult[1] /\ Len(cresult[1][k]) = 10
            /\ \E k \in {"test_f1_micro", "test_f1"} :
                  k \in DOMAIN cresult[1] /\ Len(cresult[1][k]) = 10

(* ------------------------- properties: do_kge -------------------------- *)
LabelledSources == {kedgelist[i].source : i \in {j \in 1..Len(kedgelist) : kedgelist[j].label # NaN}}

FirstLabelledRow(s) ==
    Min({i \in 1..Len(kedgelist) : kedgelist[i].source = s /\ kedgelist[i].label # NaN})

\* C4: once built, the labeled-node mapping has exactly the sources of the
\* rows with a non-missing label as keys, one row of unique_nodes per key,
\* and maps each to the label of the first such row in input order.
C4_LabelMappingFirstWins ==
    (kpc \notin {"idle", "entry"}) =>
        /\ DOMAIN label_mapping = LabelledSources
        /\ Len(unique_nodes) = Cardinality(LabelledSources)
        /\ \A s \in LabelledSources : label_mapping[s] = kedgelist[FirstLabelledRow(s)].label

C4_Witness ==
    /\ kpc \notin {"idle", "entry"}
    /\ \E i, j \in 1..Len(kedgelist) :
          /\ i < j
          /\ kedgelist[i].source = kedgelist[j].source
          /\ NaN \notin {kedgelist[i].label, kedgelist[j].label}
          /\ kedgelist[i].label # kedgelist[j].label
          /\ label_mapping[kedgelist[i].source] = kedgelist[i].label

\* the entities of the training triples, as the library names them
TrainedEntities ==
    UNION {{Str(edgelist[i].source), Str(edgelist[i].target)} : i \in split[1]}

NormalizedFileNames == {Str(design[i]) : i \in 1..Len(design)}

LabelColumn == <<"label", 0>>

\* C5: a table returned with return_patients set has exactly the trained
\* entities named in the string-normalized FileName column as rows, each
\* with the label the mapping holds for it; a table returned with
\* return_patients unset has one row per trained entity and no label column.
C5_ReturnedRows ==
    (kpc = "returned") =>
        /\ Len(kresult[1].index) = Cardinality(Range(kresult[1].index))
        /\ return_patients =>
              /\ Range(kresult[1].index) = TrainedEntities \cap NormalizedFileNames
              /\ DOMAIN kresult[1].label = Range(kresult[1].index)
              /\ \A e \in Range(kresult[1].index) :
                    e \in DOMAIN label_mapping /\ kresult[1].label[e] = label_mapping[e]
              /\ kresult[1].index # <<>> => LabelColumn \in Range(kresult[1].columns)
        /\ ~return_patients =>
              /\ Range(kresult[1].index) = TrainedEntities
              /\ LabelColumn \notin Range(kresult[1].columns)
              /\ DOMAIN kresult[1].label = {}

C5_Witness ==
    /\ kpc = "returned"
    /\ return_patients
    /\ kresult[1].index # <<>>
    /\ IntVal(1) \in Range(design)
    /\ TrainedEntities \ Range(kresult[1].index) # {}

\* the rows that the FileName filter retains
Retained == Range(IsInDesign(entity_index, AsTypeStr(design), design))

\* C6: with return_patients set, when a retained index is no key of the
\* labeled-node mapping the call stops at the lookup with an error and no
\* table; a returned table has a defined label on every row.
C6_MissingLabelFails ==
    /\ (return_patients /\ Rank(kpc) >= Rank("patients")
          /\ \E e \in Retained : e \notin DOMAIN label_mapping) =>
            /\ kpc = "patients"
            /\ kerror \in {"none", "KeyError"}
            /\ kresult = <<>>
    /\ (kpc = "returned" /\ return_patients) =>
            \A e \in Range(kresult[1].index) :
                e \in DOMAIN kresult[1].label /\ kresult[1].label[e] \notin {NaN, KeyError}

C6_Witness ==
    /\ kerror = "KeyError"
    /\ kpc = "patients"
    /\ kresult = <<>>
    /\ \E e \in Retained : e \notin DOMAIN label_mapping

C10_Ordered ==
    /\ Rank(kpc) >= Rank("hpo") => {TrainPath, ValidationPath, TestPath} \subseteq files
    /\ Rank(kpc) >= Rank("pipeline") => OptimizationDir \in files
    /\ Rank(kpc) > Rank("pipeline") => ConfigPath \in files
    /\ Rank(kpc) >= Rank("embedding") => BestPipelineDir \in files
    /\ Rank(kpc) <= Rank("embedding") => entity_index = <<>>
    /\ kerror # "none" => kresult = <<>>
    /\ kresult # <<>> <=> kpc = "returned"

C10_Step ==
    /\ files \subseteq files'
    /\ Rank(kpc') \in {Rank(kpc), Rank(kpc) + 1}
    /\ kerror # "none" => UNCHANGED vars

\* C10: the split files exist before the optimization starts, the
\* optimization directory before the pipeline reads the configuration in
\* it, the final directory before the table is built; the statements run
\* in program order, each at most once; after an exception nothing more
\* happens and no table is returned; files once written stay.
C10_StepsInOrder == [](C10_Ordered) /\ [][C10_Step]_vars

C10_Witness ==
    /\ kerror = "Exception"
    /\ kpc = "final_save"
    /\ {TrainPath, ValidationPath, TestPath, OptimizationDir, ConfigPath, BestPipelineDir}
          \subseteq files
    /\ kresult = <<>>

(* ------------------------ properties: splitter ------------------------- *)
\* 0 < train_size < 1 and 0 < validation_size < 1 - train_size
ValidFractions ==
    /\ 0 < train_size[1] /\ train_size[1] < train_size[2]
    /\ 0 < validation_size[1]
    /\ validation_size[1] * train_size[2] < validation_size[2] * (train_size[2] - train_size[1])

DefaultFractions ==
    train_size = DefaultTrainSize /\ validation_size = DefaultValidationSize

\* train_size + validation_size compared with 1
SumAboveOne ==
    validation_size[1] * train_size[2] > validation_size[2] * (train_size[2] - train_size[1])
SumIsOne ==
    validation_size[1] * train_size[2] = validation_size[2] * (train_size[2] - train_size[1])

RelationsOf(el) == {el[i].relation : i \in 1..Len(el)}

\* distinct triples of relation r in the input
CountOf(r) == Cardinality({e \in Range(edgelist) : e.relation = r})

SplitHas(a, r) == \E i \in split[a] : edgelist[i].relation = r

\* C1: for valid fractions the three returned splits are pairwise disjoint,
\* none repeats a triple, their union is the deduplicated edge set, and
\* the remaining pool is empty after the third round.
C1_SplitsPartitionEdges ==
    (spc = "returned" /\ ValidFractions) =>
        /\ Len(split) = 3
        /\ \A a, b \in 1..3 :
              a # b => Rows(edgelist, split[a]) \cap Rows(edgelist, split[b]) = {}
        /\ \A a \in 1..3 : Cardinality(Rows(edgelist, split[a])) = Cardinality(split[a])
        /\ UNION {Rows(edgelist, split[a]) : a \in 1..3} = Range(edgelist)
        /\ data = {}

C1_Witness ==
    /\ spc = "returned" /\ ValidFractions
    /\ Len(split) = 3
    /\ Cardinality(Range(edgelist)) < Len(edgelist)
    /\ \A a \in 1..3 : split[a] # {}

\* C2 as stated: for valid fractions every relation with at least 3 distinct
\* edges has an edge in each of the three returned splits.
C2_ThreeEdgesReachEverySplit ==
    (spc = "returned" /\ ValidFractions) =>
        \A r \in RelationsOf(edgelist) :
            CountOf(r) >= 3 => \A a \in 1..3 : SplitHas(a, r)

\* C2 amended: with the default fractions 0.8 and 0.1 every relation with
\* at least 8 distinct edges has an edge in each of the three returned
\* splits, and a relation with 3 to 7 distinct edges misses some split.
C2_DefaultEightEdgesReachEverySplit ==
    (spc = "returned" /\ DefaultFractions) =>
        \A r \in RelationsOf(edgelist) :
            /\ CountOf(r) >= 8 => \A a \in 1..3 : SplitHas(a, r)
            /\ CountOf(r) \in 3..7 => \E a \in 1..3 : ~SplitHas(a, r)

C2_Witness ==
    /\ spc = "returned" /\ DefaultFractions
    /\ CountOf(1) >= 8
    /\ \A a \in 1..3 : SplitHas(a, 1)

\* C3: a second run from the same seed on the same input and fractions
\* returns the same assignment of edges to splits, and every round of
\* every run consumes the relations in ascending order.
C3_SameSeedSameSplits ==
    /\ (run = 2 /\ spc = "returned") => split = firstSplit
    /\ \A a \in 1..Len(order) :
          /\ Range(order[a]) = RelationsOf(edgelist)
          /\ \A i, j \in 1..Len(order[a]) : i < j => order[a][i] < order[a][j]

C3_Witness ==
    /\ run = 2 /\ spc = "returned"
    /\ Len(order) = 3 /\ Len(order[1]) = 2
    /\ edgelist[1].relation > edgelist[Len(edgelist)].relation
    /\ \E i, j \in split[1] : i # j
    /\ split[2] # {} /\ split[3] # {}

====
